---- MODULE Spec2Model ----
(***************************************************************************)
(* Authentication / session core of the library backend (week7/server.js): *)
(* token issuance, refresh rotation with the TokenBlocklist, logout,       *)
(* requireAuth / requireRoles and the write routes they protect.           *)
(*                                                                         *)
(* Strings are modelled as records: a JWT is the record of its header, its *)
(* payload and whether its signature verifies under JWT_SECRET, so that    *)
(* two tokens are the same string exactly when the records are equal.      *)
(* Every handler is cut at its awaits: one action per store access,        *)
(* together with the synchronous code that follows it.                     *)
(***************************************************************************)
EXTENDS Integers, FiniteSets, Sequences, TLC

VARIABLES
    now,        \* the clock, in ticks (Date.now() as jsonwebtoken reads it)
    users,      \* User table: sequence indexed by id
    userRoles,  \* UserRole table: set of <<user id, role name>>
    blocklist,  \* TokenBlocklist table: set of [jti, reason]
    store,      \* Book / Member / Loan tables: resource -> [rows, seq]
    issued,     \* every token the server has handed out (what clients hold)
    call,       \* the requests being handled, one record per slot
    nreq,       \* how many operations have begun
    client      \* the browser's api module: accessToken, refreshing, waiters
                \* and the requests made through it

vars == <<now, users, userRoles, blocklist, store, issued, call, nreq, client>>

-----------------------------------------------------------------------------
(* Bounds *)

MaxClock == 2
MaxCalls == 2
MaxRequests == 4
MaxRows == 1
\* the configured lifetimes, in clock ticks
AccessTTL == 1
RefreshTTL == 2

Calls == 1..MaxCalls

\* requests the pages make through api, and how often one may be sent
MaxClientRequests == 3
MaxSends == 3

Reqs == 1..MaxClientRequests

-----------------------------------------------------------------------------
(* Values *)

Undef == [kind |-> "undefined"]
NoToken == [kind |-> "none"]
\* a cookie or header value that is not a JWT at all
Garbage == [kind |-> "garbage"]
\* a well-formed JWT whose signature was not made with JWT_SECRET
Forged == [kind |-> "jwt", header |-> [alg |-> "HS256"],
           payload |-> [sub |-> 1, typ |-> "refresh", iat |-> 0, exp |-> MaxClock + RefreshTTL + 1],
           sig |-> "forged"]

RoleNames == {"admin", "member"}
Resources == {"books", "members", "loans"}
RowIds == 1..MaxRows
AdminEmail == "admin@example.com"
AdminPassword == "Admin@123"

\* toLowerCase, were it left out
toLowerCaseIdentity(s) == s

toLowerCase(s) == IF s = "A@X.com" THEN "a@x.com" ELSE s

\* bcrypt.hash / bcrypt.compare
bcryptHash(p) == <<"bcrypt", p>>
bcryptCompare(p, h) == h = bcryptHash(p)

-----------------------------------------------------------------------------
(* Helpers JWT *)

jwtSign(payload, ttl) ==
    [kind |-> "jwt",
     header |-> [alg |-> "HS256"],
     payload |-> payload @@ [iat |-> now, exp |-> now + ttl],
     sig |-> "JWT_SECRET"]

\* jwt.verify, were a token still good at its expiry instant
jwtVerifiesInclusive(token) ==
    /\ token.kind = "jwt"
    /\ token.sig = "JWT_SECRET"
    /\ now <= token.payload.exp

\* jwt.verify succeeds (returns the payload) or throws
jwtVerifies(token) ==
    /\ token.kind = "jwt"
    /\ token.sig = "JWT_SECRET"
    /\ now < token.payload.exp

signAccessToken(payload) == jwtSign(payload, AccessTTL)

signRefreshToken(payload) == jwtSign(payload, RefreshTTL)

\* isRevoked, were it to honour only the records of a logout
isRevokedLogoutOnly(jti) == \E t \in blocklist : t.jti = jti /\ t.reason = "logout"

\* TokenBlocklist.findOne({ where: { jti } })
isRevoked(jti) == \E t \in blocklist : t.jti = jti

\* revokeJti, were it an upsert: a duplicate replaces the record
revokeJtiUpsert(jti, reason) ==
    {t \in blocklist : t.jti # jti} \cup {[jti |-> jti, reason |-> reason]}

\* TokenBlocklist.create under the unique constraint on jti; the error of a
\* duplicate insert is swallowed
revokeJti(jti, reason) ==
    IF \E t \in blocklist : t.jti = jti
    THEN blocklist
    ELSE blocklist \cup {[jti |-> jti, reason |-> reason]}

Field(r, f) == IF f \in DOMAIN r THEN r[f] ELSE Undef

\* req.user.roles || []
rolesOrEmpty(user) == IF "roles" \in DOMAIN user THEN user.roles ELSE {}

\* decoded?.header?.jti || decoded?.payload?.jti || null
getJti(token) ==
    IF token.kind # "jwt" THEN Undef
    ELSE IF Field(token.header, "jti") # Undef THEN token.header.jti
    ELSE Field(token.payload, "jti")

\* getJti(token) || token
jtiKey(token) == IF getJti(token) # Undef THEN getJti(token) ELSE token

-----------------------------------------------------------------------------
(* Store reads *)

UserIds == 1..Len(users)

RolesOf(uid) == {r \in RoleNames : <<uid, r>> \in userRoles}

\* User.findOne({ where: { email } }): the id, or 0
findUserByEmail(email) ==
    IF \E u \in UserIds : users[u].email = email
    THEN CHOOSE u \in UserIds : users[u].email = email
    ELSE 0

-----------------------------------------------------------------------------
(* Requests *)

Idle ==
    [op |-> "none", pc |-> "idle", token |-> NoToken, email |-> "", password |-> "",
     jti |-> Undef, sub |-> 0, roles |-> {}, hash |-> <<>>,
     revokedAtStart |-> FALSE, afterLogout |-> FALSE,
     status |-> 0, message |-> "", access_token |-> NoToken,
     set_cookie |-> NoToken, cleared |-> FALSE, user_id |-> 0, body_roles |-> {},
     method |-> "", resource |-> "", rowid |-> 0, rows |-> {},
     validAtStart |-> FALSE, accepted |-> {}, user |-> Undef, cause |-> "",
     registeredAtStart |-> FALSE, inactiveAtStart |-> FALSE, storeFailed |-> FALSE,
     consumed |-> FALSE]

\* Observations the properties are stated with.
\* the token is one the server signed and has not expired
Valid(token) == token \in issued /\ now < token.payload.exp

\* the token's revocation identifier is in the ledger
Revoked(token) == \E t \in blocklist : t.jti = jtiKey(token)

TokenTyp(token) == IF token.kind = "jwt" THEN Field(token.payload, "typ") ELSE Undef

\* the handler of slot c is suspended at an await
InFlight(c) == call[c].pc \notin {"idle", "done", "rejected"}

\* A request arrives: it takes the first slot that handles nothing, and the
\* responses already sent leave their slots.
Arrive(c, r) ==
    /\ nreq < MaxRequests
    /\ ~InFlight(c)
    /\ \A d \in Calls : d < c => InFlight(d)
    /\ nreq' = nreq + 1
    /\ call' = [d \in Calls |-> IF d = c THEN [r EXCEPT !.validAtStart = Valid(r.token)]
                                  ELSE IF InFlight(d) THEN call[d] ELSE Idle]

\* A handler in flight takes its next step.
Step(c, r) ==
    /\ call' = [call EXCEPT ![c] = r]
    /\ UNCHANGED nreq

\* res.status(status).json({ message }): the handler's locals go away
Respond(r, status, message) ==
    [r EXCEPT !.pc = "done", !.status = status, !.message = message,
              !.jti = Undef, !.sub = 0, !.roles = {}, !.hash = <<>>]

\* what a client can put into the cookie or the Authorization header
Presentable == issued \cup {Garbage, Forged}

\* an unsigned JWT whose header names another token's string as its jti
Crafted(t) == [kind |-> "jwt", header |-> [alg |-> "none", jti |-> t],
               payload |-> [sub |-> 0], sig |-> "forged"]

\* what a client can put into the cookie of a Logout, where the jti of an
\* unverified token is read
Cookies == Presentable \cup {Crafted(t) : t \in {i \in issued : TokenTyp(i) = "refresh"}}

\* A request made through api: where its promise stands, its config's
\* _retry mark, how many times it has been sent, and the POST /auth/refresh
\* its response handler has made, with the status that one was answered.
NotSent == [pc |-> "idle", _retry |-> FALSE, sends |-> 0,
            refresh |-> "none", refreshStatus |-> 0]

Init ==
    /\ now = 0
    /\ users = <<[email |-> AdminEmail, password_hash |-> bcryptHash(AdminPassword),
                  is_active |-> TRUE]>>
    /\ userRoles = {<<1, "admin">>}
    /\ blocklist = {}
    /\ store = [r \in Resources |-> [rows |-> {}, seq |-> 0]]
    /\ issued = {}
    /\ call = [c \in Calls |-> Idle]
    /\ nreq = 0
    /\ client = [accessToken |-> "old", refreshing |-> FALSE, waiters |-> <<>>,
                 req |-> [r \in Reqs |-> NotSent]]

Tick ==
    /\ now < MaxClock
    /\ now' = now + 1
    /\ UNCHANGED <<users, userRoles, blocklist, store, issued, call, nreq, client>>

\* The operator of the database deactivates a user or grants a role (the
\* server has no route for either); these count as operations.
Deactivate(u) ==
    /\ nreq < MaxRequests
    /\ u \in UserIds
    /\ users[u].is_active
    /\ users' = [users EXCEPT ![u].is_active = FALSE]
    /\ nreq' = nreq + 1
    /\ UNCHANGED <<now, userRoles, blocklist, store, issued, call, client>>

GrantRole(u, role) ==
    /\ nreq < MaxRequests
    /\ u \in UserIds
    /\ <<u, role>> \notin userRoles
    /\ userRoles' = userRoles \cup {<<u, role>>}
    /\ nreq' = nreq + 1
    /\ UNCHANGED <<now, users, blocklist, store, issued, call, client>>

-----------------------------------------------------------------------------
(* POST /auth/register *)

RegisterEmails == {"", "a@x.com", "A@X.com"}
RegisterPasswords == {"pw"}

\* two emails that differ in letter case at most
SameEmail(a, b) == a = b \/ {a, b} = {"a@x.com", "A@X.com"}

\* a Register with this email, up to letter case, has succeeded
Registered(email) ==
    \E u \in UserIds : SameEmail(users[u].email, email) /\ <<u, "member">> \in userRoles

RegisterFind(c) ==
    /\ \E email \in RegisterEmails, password \in RegisterPasswords :
         LET r == [Idle EXCEPT !.op = "register", !.email = email, !.password = password,
                               !.registeredAtStart = Registered(email)]
         IN  Arrive(c, IF email = "" \/ password = ""
                       THEN Respond(r, 400, "email/password required")
                       ELSE IF findUserByEmail(toLowerCase(email)) # 0
                       THEN Respond(r, 409, "email exists")
                       ELSE [r EXCEPT !.pc = "create"])
    /\ UNCHANGED <<now, users, userRoles, blocklist, store, issued, client>>

\* User.create under the unique constraint on email: a duplicate throws, and
\* nothing in the handler catches it
RegisterCreate(c) ==
    /\ call[c].op = "register" /\ call[c].pc = "create"
    /\ LET r == call[c]
           email == toLowerCase(r.email)
       IN  IF findUserByEmail(email) # 0
           THEN /\ Step(c, [r EXCEPT !.pc = "rejected"])
                /\ UNCHANGED users
           ELSE /\ users' = Append(users, [email |-> email,
                                           password_hash |-> bcryptHash(r.password),
                                           is_active |-> TRUE])
                /\ Step(c, [r EXCEPT !.pc = "addRole", !.sub = Len(users) + 1])
    /\ UNCHANGED <<now, userRoles, blocklist, store, issued, client>>

RegisterAddRole(c) ==
    /\ call[c].op = "register" /\ call[c].pc = "addRole"
    /\ userRoles' = userRoles \cup {<<call[c].sub, "member">>}
    /\ Step(c, Respond(call[c], 201, "ok"))
    /\ UNCHANGED <<now, users, blocklist, store, issued, client>>

-----------------------------------------------------------------------------
(* POST /auth/login *)

LoginEmails == {AdminEmail, "A@X.com"}
LoginPasswords == {AdminPassword, "pw"}

\* why a Login is about to fail, as the store and the request show it
LoginCause(email, password) ==
    LET uid == findUserByEmail(toLowerCase(email))
    IN  IF uid = 0 THEN "absent"
        ELSE IF ~users[uid].is_active THEN "inactive"
        ELSE IF users[uid].password_hash # bcryptHash(password) THEN "mismatch"
        ELSE ""

\* the first part of Login, were it to tell an unknown email apart
LoginFindReveals(c) ==
    /\ \E email \in LoginEmails, password \in LoginPasswords :
         LET uid == findUserByEmail(toLowerCase(email))
             r == [Idle EXCEPT !.op = "login", !.email = email, !.password = password,
                               !.cause = LoginCause(email, password)]
         IN  Arrive(c, IF uid = 0 THEN Respond(r, 404, "user not found")
                       ELSE IF ~users[uid].is_active
                       THEN Respond(r, 401, "invalid credentials")
                       ELSE [r EXCEPT !.pc = "compare", !.sub = uid, !.roles = RolesOf(uid),
                                      !.hash = users[uid].password_hash])
    /\ UNCHANGED <<now, users, userRoles, blocklist, store, issued, client>>

LoginFind(c) ==
    /\ \E email \in LoginEmails, password \in LoginPasswords :
         LET uid == findUserByEmail(toLowerCase(email))
             r == [Idle EXCEPT !.op = "login", !.email = email, !.password = password,
                               !.cause = LoginCause(email, password)]
         IN  Arrive(c, IF uid = 0 \/ ~users[uid].is_active
                       THEN Respond(r, 401, "invalid credentials")
                       ELSE [r EXCEPT !.pc = "compare", !.sub = uid, !.roles = RolesOf(uid),
                                      !.hash = users[uid].password_hash])
    /\ UNCHANGED <<now, users, userRoles, blocklist, store, issued, client>>

LoginCompare(c) ==
    /\ call[c].op = "login" /\ call[c].pc = "compare"
    /\ LET r == call[c]
           access_token == signAccessToken([sub |-> r.sub, roles |-> r.roles, typ |-> "access"])
           refresh_token == signRefreshToken([sub |-> r.sub, typ |-> "refresh"])
       IN  IF ~bcryptCompare(r.password, r.hash)
           THEN /\ Step(c, Respond(r, 401, "invalid credentials"))
                /\ UNCHANGED issued
           ELSE /\ Step(c, [Respond(r, 200, "") EXCEPT !.access_token = access_token,
                                                       !.set_cookie = refresh_token])
                /\ issued' = issued \cup {access_token, refresh_token}
    /\ UNCHANGED <<now, users, userRoles, blocklist, store, client>>

-----------------------------------------------------------------------------
(* POST /auth/refresh *)

\* a Logout that presented this token has returned
LoggedOut(token) ==
    /\ token # NoToken
    /\ \E d \in Calls : /\ call[d].op = "logout"
                        /\ call[d].pc = "done"
                        /\ call[d].token = token

\* the token names a subject that is deactivated or is no user
SubjectInactive(token) ==
    /\ token.kind = "jwt"
    /\ \/ token.payload.sub \notin UserIds
       \/ ~users[token.payload.sub].is_active

RefreshStart(c) ==
    /\ \E token \in Presentable \cup {NoToken} :
         LET r == [Idle EXCEPT !.op = "refresh", !.token = token,
                     !.revokedAtStart = (token # NoToken /\ Revoked(token)),
                     !.afterLogout = LoggedOut(token),
                     !.inactiveAtStart = SubjectInactive(token)]
         IN  Arrive(c, IF token = NoToken THEN Respond(r, 401, "Missing refresh token")
                       ELSE IF ~jwtVerifies(token) THEN Respond(r, 401, "Invalid refresh")
                       ELSE [r EXCEPT !.pc = "isRevoked", !.sub = token.payload.sub,
                                      !.jti = jtiKey(token)])
    /\ UNCHANGED <<now, users, userRoles, blocklist, store, issued, client>>

RefreshIsRevoked(c) ==
    /\ call[c].op = "refresh" /\ call[c].pc = "isRevoked"
    /\ Step(c, IF isRevoked(call[c].jti)
               THEN Respond(call[c], 401, "Refresh revoked")
               ELSE [call[c] EXCEPT !.pc = "revoke"])
    /\ UNCHANGED <<now, users, userRoles, blocklist, store, issued, client>>

RefreshRevoke(c) ==
    /\ call[c].op = "refresh" /\ call[c].pc = "revoke"
    /\ blocklist' = revokeJti(call[c].jti, "rotated")
    /\ Step(c, [call[c] EXCEPT !.pc = "findUser",
                                !.consumed = (revokeJti(call[c].jti, "rotated") # blocklist)])
    /\ UNCHANGED <<now, users, userRoles, store, issued, client>>

\* the last part of Refresh, were it to copy the roles the presented token
\* carries instead of loading them
RefreshFindUserTokenRoles(c) ==
    /\ call[c].op = "refresh" /\ call[c].pc = "findUser"
    /\ LET r == call[c]
           uid == r.sub
           newAccess == signAccessToken([sub |-> uid, roles |-> rolesOrEmpty(r.token.payload),
                                         typ |-> "access"])
           newRefresh == signRefreshToken([sub |-> uid, typ |-> "refresh"])
       IN  IF uid \notin UserIds \/ ~users[uid].is_active
           THEN /\ Step(c, Respond(r, 403, "User inactive"))
                /\ UNCHANGED issued
           ELSE /\ Step(c, [Respond(r, 200, "") EXCEPT !.access_token = newAccess,
                                                       !.set_cookie = newRefresh])
                /\ issued' = issued \cup {newAccess, newRefresh}
    /\ UNCHANGED <<now, users, userRoles, blocklist, store, client>>

\* the last part of Refresh, were it to issue for any user it finds
RefreshFindUserAnyState(c) ==
    /\ call[c].op = "refresh" /\ call[c].pc = "findUser"
    /\ LET r == call[c]
           uid == r.sub
           newAccess == signAccessToken([sub |-> uid, roles |-> RolesOf(uid), typ |-> "access"])
           newRefresh == signRefreshToken([sub |-> uid, typ |-> "refresh"])
       IN  IF uid \notin UserIds
           THEN /\ Step(c, Respond(r, 403, "User inactive"))
                /\ UNCHANGED issued
           ELSE /\ Step(c, [Respond(r, 200, "") EXCEPT !.access_token = newAccess,
                                                       !.set_cookie = newRefresh])
                /\ issued' = issued \cup {newAccess, newRefresh}
    /\ UNCHANGED <<now, users, userRoles, blocklist, store, client>>

RefreshFindUser(c) ==
    /\ call[c].op = "refresh" /\ call[c].pc = "findUser"
    /\ LET r == call[c]
           uid == r.sub
           newAccess == signAccessToken([sub |-> uid, roles |-> RolesOf(uid), typ |-> "access"])
           newRefresh == signRefreshToken([sub |-> uid, typ |-> "refresh"])
       IN  IF uid \notin UserIds \/ ~users[uid].is_active
           THEN /\ Step(c, Respond(r, 403, "User inactive"))
                /\ UNCHANGED issued
           ELSE /\ Step(c, [Respond(r, 200, "") EXCEPT !.access_token = newAccess,
                                                       !.set_cookie = newRefresh])
                /\ issued' = issued \cup {newAccess, newRefresh}
    /\ UNCHANGED <<now, users, userRoles, blocklist, store, client>>

\* The database is unavailable when Refresh gets to one of its three store
\* operations.
\* TokenBlocklist.findOne rejects: isRevoked rejects, the handler's catch answers
RefreshIsRevokedFails(c) ==
    /\ call[c].op = "refresh" /\ call[c].pc = "isRevoked"
    /\ Step(c, Respond([call[c] EXCEPT !.storeFailed = TRUE], 401, "Invalid refresh"))
    /\ UNCHANGED <<now, users, userRoles, blocklist, store, issued, client>>

\* TokenBlocklist.create rejects: revokeJti's own catch swallows it and the
\* handler goes on
RefreshRevokeFails(c) ==
    /\ call[c].op = "refresh" /\ call[c].pc = "revoke"
    /\ Step(c, [call[c] EXCEPT !.pc = "findUser", !.storeFailed = TRUE])
    /\ UNCHANGED <<now, users, userRoles, blocklist, store, issued, client>>

\* User.findByPk rejects: the handler's catch answers
RefreshFindUserFails(c) ==
    /\ call[c].op = "refresh" /\ call[c].pc = "findUser"
    /\ Step(c, Respond([call[c] EXCEPT !.storeFailed = TRUE], 401, "Invalid refresh"))
    /\ UNCHANGED <<now, users, userRoles, blocklist, store, issued, client>>

-----------------------------------------------------------------------------
(* POST /auth/logout *)

\* Logout, were it to clear the cookie and leave the ledger alone
LogoutClearsOnly(c) ==
    /\ \E token \in Cookies \cup {NoToken} :
         Arrive(c, Respond([Idle EXCEPT !.op = "logout", !.token = token, !.cleared = TRUE],
                           200, "logged out"))
    /\ UNCHANGED <<now, users, userRoles, blocklist, store, issued, client>>

Logout(c) ==
    /\ \E token \in Cookies \cup {NoToken} :
         LET r == [Idle EXCEPT !.op = "logout", !.token = token, !.cleared = TRUE]
         IN  /\ blocklist' = IF token # NoToken
                             THEN revokeJti(jtiKey(token), "logout")
                             ELSE blocklist
             /\ Arrive(c, Respond(r, 200, "logged out"))
    /\ UNCHANGED <<now, users, userRoles, store, issued, client>>

-----------------------------------------------------------------------------
(* Middleware, GET /auth/me *)

\* requireAuth, were it to load the user and refuse an inactive one
requireAuthActiveOnly(token) ==
    IF token = NoToken
    THEN [next |-> FALSE, status |-> 401, message |-> "Missing token", user |-> Undef]
    ELSE IF jwtVerifies(token) /\ token.payload.sub \in UserIds
            /\ users[token.payload.sub].is_active
    THEN [next |-> TRUE, status |-> 0, message |-> "", user |-> token.payload]
    ELSE [next |-> FALSE, status |-> 401, message |-> "Invalid/expired token", user |-> Undef]

requireAuth(token) ==
    IF token = NoToken
    THEN [next |-> FALSE, status |-> 401, message |-> "Missing token", user |-> Undef]
    ELSE IF jwtVerifies(token)
    THEN [next |-> TRUE, status |-> 0, message |-> "", user |-> token.payload]
    ELSE [next |-> FALSE, status |-> 401, message |-> "Invalid/expired token", user |-> Undef]

\* requireRoles, were it to ask for any one of the accepted roles
requireRolesAny(accepted, user) ==
    IF user = Undef
    THEN [next |-> FALSE, status |-> 401, message |-> "Unauthenticated"]
    ELSE IF \E r \in accepted : r \in rolesOrEmpty(user)
    THEN [next |-> TRUE, status |-> 0, message |-> ""]
    ELSE [next |-> FALSE, status |-> 403, message |-> "Insufficient role"]

\* requireRoles, were it to let every authenticated caller through
requireRolesAuthenticated(accepted, user) ==
    IF user = Undef
    THEN [next |-> FALSE, status |-> 401, message |-> "Unauthenticated"]
    ELSE [next |-> TRUE, status |-> 0, message |-> ""]

requireRoles(accepted, user) ==
    IF user = Undef
    THEN [next |-> FALSE, status |-> 401, message |-> "Unauthenticated"]
    ELSE IF \A r \in accepted : r \in rolesOrEmpty(user)
    THEN [next |-> TRUE, status |-> 0, message |-> ""]
    ELSE [next |-> FALSE, status |-> 403, message |-> "Insufficient role"]

Me(c) ==
    /\ \E token \in Presentable \cup {NoToken} :
         LET r == [Idle EXCEPT !.op = "me", !.token = token]
             auth == requireAuth(token)
         IN  Arrive(c, IF ~auth.next THEN Respond(r, auth.status, auth.message)
                       ELSE [Respond(r, 200, "") EXCEPT !.user_id = auth.user.sub,
                                                        !.body_roles = rolesOrEmpty(auth.user)])
    /\ UNCHANGED <<now, users, userRoles, blocklist, store, issued, client>>

\* requireRoles(...accepted) is variadic: the role names a route may ask for
GuardRoles == RoleNames \cup {"librarian"}

\* req.user as the guard may find it: never set, a payload without roles, or
\* a payload with a role list
GuardUsers ==
    {Undef, [sub |-> 1, typ |-> "refresh"]}
        \cup {[sub |-> 1, typ |-> "access", roles |-> S] : S \in SUBSET GuardRoles}

\* A route guarded by requireRoles(...accepted) alone: the guard answers, or
\* calls next() and the handler answers 200.
Guarded(c) ==
    /\ \E accepted \in SUBSET GuardRoles, user \in GuardUsers :
         LET r == [Idle EXCEPT !.op = "guarded", !.accepted = accepted, !.user = user]
             role == requireRoles(accepted, user)
         IN  Arrive(c, IF ~role.next THEN Respond(r, role.status, role.message)
                       ELSE Respond(r, 200, "next"))
    /\ UNCHANGED <<now, users, userRoles, blocklist, store, issued, client>>

-----------------------------------------------------------------------------
(* Books / Members / Loans *)

RowExists(res, id) == \E row \in store[res].rows : row.id = id

\* GET /api/v1/<resource>: public
List(c) ==
    /\ \E res \in Resources :
         LET r == [Idle EXCEPT !.op = "list", !.method = "GET", !.resource = res]
         IN  Arrive(c, [Respond(r, 200, "") EXCEPT !.rows = store[res].rows])
    /\ UNCHANGED <<now, users, userRoles, blocklist, store, issued, client>>

\* POST, PUT, DELETE: requireAuth, requireRoles('admin'), then the handler
WriteArrive(c) ==
    /\ \E method \in {"POST", "PUT", "DELETE"}, res \in Resources, id \in RowIds,
          token \in Presentable \cup {NoToken} :
         LET r == [Idle EXCEPT !.op = "write", !.method = method, !.resource = res,
                               !.token = token,
                               !.rowid = IF method = "POST" THEN 0 ELSE id]
             auth == requireAuth(token)
             role == requireRoles({"admin"}, auth.user)
         IN  Arrive(c, IF ~auth.next THEN Respond(r, auth.status, auth.message)
                       ELSE IF ~role.next THEN Respond(r, role.status, role.message)
                       ELSE [r EXCEPT !.pc = IF method = "POST" THEN "create" ELSE "findByPk"])
    /\ UNCHANGED <<now, users, userRoles, blocklist, store, issued, client>>

\* Model.create: the row is inserted under the next id, or the insert throws
\* (a null title, a foreign key with no row) and nothing catches it
WriteCreate(c) ==
    /\ call[c].op = "write" /\ call[c].pc = "create"
    /\ LET r == call[c]
           res == r.resource
           id == store[res].seq + 1
       IN  \/ /\ store' = [store EXCEPT ![res] =
                     [rows |-> @.rows \cup {[id |-> id, data |-> "created"]}, seq |-> id]]
              /\ Step(c, [Respond(r, 201, "") EXCEPT !.rowid = id])
           \/ /\ Step(c, [r EXCEPT !.pc = "rejected"])
              /\ UNCHANGED store
    /\ UNCHANGED <<now, users, userRoles, blocklist, issued, client>>

WriteFind(c) ==
    /\ call[c].op = "write" /\ call[c].pc = "findByPk"
    /\ Step(c, IF ~RowExists(call[c].resource, call[c].rowid)
               THEN Respond(call[c], 404, "Not found")
               ELSE [call[c] EXCEPT !.pc = IF call[c].method = "PUT" THEN "save" ELSE "destroy"])
    /\ UNCHANGED <<now, users, userRoles, blocklist, store, issued, client>>

\* b.save(): UPDATE ... WHERE id
WriteSave(c) ==
    /\ call[c].op = "write" /\ call[c].pc = "save"
    /\ LET r == call[c]
           res == r.resource
       IN  store' = [store EXCEPT ![res].rows =
               {IF row.id = r.rowid THEN [row EXCEPT !.data = "updated"] ELSE row : row \in @}]
    /\ Step(c, Respond(call[c], 200, "ok"))
    /\ UNCHANGED <<now, users, userRoles, blocklist, issued, client>>

\* b.destroy(): DELETE ... WHERE id
WriteDestroy(c) ==
    /\ call[c].op = "write" /\ call[c].pc = "destroy"
    /\ LET r == call[c]
           res == r.resource
       IN  store' = [store EXCEPT ![res].rows = {row \in @ : row.id # r.rowid}]
    /\ Step(c, Respond(call[c], 200, "ok"))
    /\ UNCHANGED <<now, users, userRoles, blocklist, issued, client>>

-----------------------------------------------------------------------------
(* The api module of the pages: axios instance and its 401 interceptor *)

serverVars == <<now, users, userRoles, blocklist, store, issued, call, nreq>>

\* the resolve functions in waiters: the handler of request q, or the handler
\* of the POST /auth/refresh that request q's handler made
WaiterOf(q) == <<"request", q>>
RefreshWaiterOf(q) == <<"refresh", q>>

Queued(w) == \E i \in 1..Len(client.waiters) : client.waiters[i] = w

\* waiters.forEach(fn => fn()): every handler that was waiting goes on to
\* `return api(original)` before any other response is handled
Released(req) ==
    [q \in Reqs |->
        IF Queued(WaiterOf(q)) THEN [req[q] EXCEPT !.pc = "sent", !.sends = @ + 1]
        ELSE IF Queued(RefreshWaiterOf(q)) THEN [req[q] EXCEPT !.refresh = "sent"]
        ELSE req[q]]

\* a page calls api.get / post / put / delete
ClientSend(r) ==
    /\ client.req[r].pc = "idle"
    /\ client' = [client EXCEPT !.req[r].pc = "sent", !.req[r].sends = 1]
    /\ UNCHANGED serverVars

\* the response handler, were it to start a refresh whether or not one is
\* in flight
ClientResponseNoQueue(r) ==
    /\ client.req[r].pc = "sent"
    /\ \E status \in {200, 401, 500} :
         /\ status = 401 => client.req[r].sends < MaxSends
         /\ client' =
              IF status = 200 THEN [client EXCEPT !.req[r].pc = "resolved"]
              ELSE IF status = 401 /\ ~client.req[r]._retry
              THEN [client EXCEPT !.refreshing = TRUE,
                                  !.req[r]._retry = TRUE,
                                  !.req[r].pc = "awaitRefresh",
                                  !.req[r].refresh = "sent"]
              ELSE [client EXCEPT !.req[r].pc = "rejected"]
    /\ UNCHANGED serverVars

\* The response to request r arrives: r => r for a success, otherwise the
\* rejection handler up to its first await (or to its throw).
ClientResponse(r) ==
    /\ client.req[r].pc = "sent"
    /\ \E status \in {200, 401, 500} :
         /\ status = 401 => client.req[r].sends < MaxSends
         /\ client' =
              IF status = 200 THEN [client EXCEPT !.req[r].pc = "resolved"]
              ELSE IF status = 401 /\ ~client.req[r]._retry
              THEN IF client.refreshing
                   THEN [client EXCEPT !.waiters = Append(@, WaiterOf(r)),
                                       !.req[r].pc = "waiting"]
                   ELSE [client EXCEPT !.refreshing = TRUE,
                                       !.req[r]._retry = TRUE,
                                       !.req[r].pc = "awaitRefresh",
                                       !.req[r].refresh = "sent"]
              ELSE [client EXCEPT !.req[r].pc = "rejected"]
    /\ UNCHANGED serverVars

\* The response to the POST /auth/refresh made by r's handler arrives. It was
\* sent through api, so the same interceptor handles it first: a 401 for it
\* (its config has no _retry) finds refreshing true and waits in waiters.
\* Otherwise r's handler goes on after its await: try or catch, then finally.
RefreshResponse(r) ==
    /\ client.req[r].refresh = "sent"
    /\ client.refreshing
    /\ \E status \in {200, 401, 403} :
         client' =
            IF status = 401
            THEN [client EXCEPT !.waiters = Append(@, RefreshWaiterOf(r)),
                                !.req[r].refresh = "waiting",
                                !.req[r].refreshStatus = status]
            ELSE [accessToken |-> IF status = 200 THEN "new" ELSE "none",
                  refreshing |-> FALSE,
                  waiters |-> <<>>,
                  req |-> [Released(client.req) EXCEPT
                             ![r] = IF status = 200
                                    THEN [@ EXCEPT !.pc = "sent", !.sends = @ + 1,
                                                   !.refresh = "done",
                                                   !.refreshStatus = status]
                                    ELSE [@ EXCEPT !.pc = "rejected",
                                                   !.refresh = "done",
                                                   !.refreshStatus = status]]]
    /\ UNCHANGED serverVars

-----------------------------------------------------------------------------

Next ==
    \/ Tick
    \/ \E u \in UserIds : Deactivate(u)
    \/ \E u \in UserIds : GrantRole(u, "admin")
    \/ \E c \in Calls : RegisterFind(c)
    \/ \E c \in Calls : RegisterCreate(c)
    \/ \E c \in Calls : RegisterAddRole(c)
    \/ \E c \in Calls : LoginFind(c)
    \/ \E c \in Calls : LoginCompare(c)
    \/ \E c \in Calls : RefreshStart(c)
    \/ \E c \in Calls : RefreshIsRevoked(c)
    \/ \E c \in Calls : RefreshRevoke(c)
    \/ \E c \in Calls : RefreshFindUser(c)
    \/ \E c \in Calls : Logout(c)
    \/ \E c \in Calls : Me(c)

\* the session core: the auth routes, the clock and the database operator
Spec == Init /\ [][Next]_vars

\* The resource routes read the bearer token and the clock and nothing else
\* of the session core; they are checked with the routes that make users and
\* tokens.
NextCrud ==
    \/ Tick
    \/ \E u \in UserIds : GrantRole(u, "admin")
    \/ \E c \in Calls : RegisterFind(c)
    \/ \E c \in Calls : RegisterCreate(c)
    \/ \E c \in Calls : RegisterAddRole(c)
    \/ \E c \in Calls : LoginFind(c)
    \/ \E c \in Calls : LoginCompare(c)
    \/ \E c \in Calls : List(c)
    \/ \E c \in Calls : WriteArrive(c)
    \/ \E c \in Calls : WriteCreate(c)
    \/ \E c \in Calls : WriteFind(c)
    \/ \E c \in Calls : WriteSave(c)
    \/ \E c \in Calls : WriteDestroy(c)

SpecCrud == Init /\ [][NextCrud]_vars

\* Login and Refresh with a database that may fail under Refresh
NextFault ==
    \/ Tick
    \/ \E c \in Calls : LoginFind(c)
    \/ \E c \in Calls : LoginCompare(c)
    \/ \E c \in Calls : RefreshStart(c)
    \/ \E c \in Calls : RefreshIsRevoked(c)
    \/ \E c \in Calls : RefreshRevoke(c)
    \/ \E c \in Calls : RefreshFindUser(c)
    \/ \E c \in Calls : RefreshIsRevokedFails(c)
    \/ \E c \in Calls : RefreshRevokeFails(c)
    \/ \E c \in Calls : RefreshFindUserFails(c)

SpecFault == Init /\ [][NextFault]_vars

\* the pages' api module against a server that may answer anything
NextClient ==
    \/ \E r \in Reqs : ClientSend(r)
    \/ \E r \in Reqs : ClientResponse(r)
    \/ \E r \in Reqs : RefreshResponse(r)

SpecClient == Init /\ [][NextClient]_vars

\* the Authorization Guard on its own, over every required set and claims
NextGuard == \E c \in Calls : Guarded(c)

SpecGuard == Init /\ [][NextGuard]_vars

-----------------------------------------------------------------------------
(* Properties *)

RefreshCalls == {c \in Calls : call[c].op = "refresh"}
Succeeded(c) == call[c].pc = "done" /\ call[c].status = 200

\* C1: a Refresh that starts while its token's revocation identifier is in
\* the TokenBlocklist never gets past the revocation check: it answers 401,
\* returns no access token and sets no refresh cookie.
C1_RevokedRefreshFails ==
    \A c \in RefreshCalls : call[c].revokedAtStart =>
        /\ call[c].pc \in {"isRevoked", "done"}
        /\ call[c].pc = "done" => /\ call[c].status = 401
                                  /\ call[c].access_token = NoToken
                                  /\ call[c].set_cookie = NoToken

\* a validly signed, unexpired token that was revoked has been refused
C1_Witness ==
    \E c \in RefreshCalls : /\ call[c].revokedAtStart
                            /\ call[c].validAtStart
                            /\ call[c].pc = "done"
                            /\ call[c].message = "Refresh revoked"

\* C2: of two Refresh calls that present the same token, valid and not yet
\* revoked when each starts, at most one returns success.
C2_AtMostOneRefreshSucceeds ==
    \A c, d \in RefreshCalls :
        (/\ c # d
         /\ call[c].token = call[d].token
         /\ ~call[c].revokedAtStart /\ ~call[d].revokedAtStart
         /\ Succeeded(c)) => ~Succeeded(d)

\* C3: when a Refresh has returned success for token T, the ledger holds T's
\* identifier with reason "rotated".
C3_SuccessImpliesRotated ==
    \A c \in RefreshCalls : Succeeded(c) =>
        [jti |-> jtiKey(call[c].token), reason |-> "rotated"] \in blocklist

\* C4: the refresh token a successful Refresh issues differs from the token
\* presented to it and is not in the ledger.
C4_NewRefreshIdentifier ==
    \A c \in RefreshCalls : Succeeded(c) =>
        /\ call[c].set_cookie # call[c].token
        /\ ~Revoked(call[c].set_cookie)

\* C5: a Refresh that starts after a Logout presenting the same token has
\* returned never gets past the revocation check and answers 401, whether
\* the token was valid or not.
C5_RefreshAfterLogoutFails ==
    \A c \in RefreshCalls : call[c].afterLogout =>
        /\ call[c].pc \in {"isRevoked", "done"}
        /\ call[c].pc = "done" => /\ call[c].status = 401
                                  /\ call[c].access_token = NoToken
                                  /\ call[c].set_cookie = NoToken

\* a token that was still valid is refused after its Logout
C5_Witness ==
    \E c \in RefreshCalls : /\ call[c].afterLogout
                            /\ call[c].validAtStart
                            /\ call[c].pc = "done"
                            /\ call[c].status = 401

LogoutCalls == {c \in Calls : call[c].op = "logout"}

\* the step is the arrival of a Logout with this token in slot c
LogoutArrives(c, token) ==
    /\ nreq' = nreq + 1
    /\ call'[c].op = "logout"
    /\ call'[c].token = token

\* what every Logout has done once it has answered
C6_LogoutAlwaysSucceeds ==
    \A c \in LogoutCalls : /\ call[c].pc = "done"
                           /\ call[c].status = 200
                           /\ call[c].cleared
                           /\ call[c].set_cookie = NoToken
                           /\ call[c].token # NoToken => Revoked(call[c].token)

AccessTokens == {t \in issued : TokenTyp(t) = "access"}
RefreshTokens == {t \in issued : TokenTyp(t) = "refresh"}
MeCalls == {c \in Calls : call[c].op = "me"}

\* C7: requireAuth accepts every unexpired access token the server has
\* issued, with the claims embedded at issuance, in every state of the
\* ledger and the user store; GET /auth/me answered 200 with exactly those
\* claims when the token was valid on arrival.
C7_AccessTokenStaysAccepted ==
    /\ \A t \in AccessTokens : now < t.payload.exp =>
          /\ requireAuth(t).next
          /\ requireAuth(t).user = t.payload
          /\ requireRoles(t.payload.roles, requireAuth(t).user).next
    /\ \A c \in MeCalls : (call[c].token \in AccessTokens /\ call[c].validAtStart) =>
          /\ call[c].status = 200
          /\ call[c].user_id = call[c].token.payload.sub
          /\ call[c].body_roles = call[c].token.payload.roles

\* GET /auth/me accepted the unexpired access token of a user who has been
\* deactivated
C7_Witness ==
    \E c \in MeCalls : /\ call[c].status = 200
                       /\ call[c].token \in AccessTokens
                       /\ ~users[call[c].user_id].is_active
                       /\ now < call[c].token.payload.exp

\* C8: what a Refresh hands out to a caller presenting an access token is not
\* valid beyond that access token's expiry.
C8_AccessTokenBoundedByTTL ==
    \A c \in RefreshCalls : (Succeeded(c) /\ call[c].token \in AccessTokens) =>
        /\ call[c].set_cookie.payload.exp <= call[c].token.payload.exp
        /\ call[c].access_token.payload.exp <= call[c].token.payload.exp

\* C9: requireAuth never accepts a refresh token: GET /auth/me with a refresh
\* token as the bearer credential does not answer 200.
C9_RefreshTokenNotBearer ==
    \A c \in MeCalls : call[c].token \in RefreshTokens => call[c].status = 401

WriteCalls == {c \in Calls : call[c].op = "write"}

\* the token carried on arrival was a valid access token with role admin
AdminOnArrival(c) ==
    /\ call[c].validAtStart
    /\ call[c].token \in AccessTokens
    /\ "admin" \in call[c].token.payload.roles

\* what the middleware has decided for every write and list request
C10_WriteGate ==
    \A c \in Calls :
        /\ call[c].op = "write" =>
              /\ ~call[c].validAtStart => (call[c].pc = "done" /\ call[c].status = 401)
              /\ (call[c].validAtStart /\ ~AdminOnArrival(c)) =>
                     (call[c].pc = "done" /\ call[c].status = 403)
              /\ call[c].status \in {200, 201, 404} => AdminOnArrival(c)
        /\ call[c].op = "list" => (call[c].token = NoToken /\ Succeeded(c))

\* C10: a write route changes the Book / Member / Loan tables only while
\* handling a request that carried a valid access token with role admin; a
\* request whose token does not verify is answered 401, one whose token
\* verifies but lacks admin 403, and neither gets into the handler; GET list
\* answers 200 with no token.
C10_WritesNeedAdmin ==
    /\ []C10_WriteGate
    /\ [][store' # store =>
            \E c \in WriteCalls : /\ InFlight(c)
                                  /\ call'[c] # call[c]
                                  /\ AdminOnArrival(c)]_vars

\* a member's valid token was answered 403 on a write route
C10_Witness ==
    \E c \in WriteCalls : /\ call[c].status = 403
                          /\ call[c].token \in AccessTokens
                          /\ call[c].token.payload.roles = {"member"}

GuardedCalls == {c \in Calls : call[c].op = "guarded"}

\* the reference predicate: every required role is among the claims' roles
RequiredSubsetOfClaims(accepted, user) ==
    accepted \subseteq (IF "roles" \in DOMAIN user THEN user.roles ELSE {})

\* C11: requireRoles lets a request through iff claims are attached and the
\* required set is a subset of the claims' role set; it answers 401
\* Unauthenticated without claims and 403 when the subset test fails, a
\* missing roles field counting as the empty set.
C11_GuardIsSubsetTest ==
    \A c \in GuardedCalls :
        LET r == call[c]
        IN  /\ r.pc = "done"
            /\ r.user = Undef => (r.status = 401 /\ r.message = "Unauthenticated")
            /\ (r.user # Undef /\ RequiredSubsetOfClaims(r.accepted, r.user)) =>
                   r.status = 200
            /\ (r.user # Undef /\ ~RequiredSubsetOfClaims(r.accepted, r.user)) =>
                   (r.status = 403 /\ r.message = "Insufficient role")

\* claims holding one of two required roles were answered 403
C11_Witness ==
    \E c \in GuardedCalls : /\ call[c].accepted = {"admin", "librarian"}
                             /\ call[c].user # Undef
                             /\ rolesOrEmpty(call[c].user) = {"admin", "member"}
                             /\ call[c].status = 403

LoginCalls == {c \in Calls : call[c].op = "login"}

\* what a client sees of a response
Response(c) == <<call[c].status, call[c].message, call[c].access_token, call[c].set_cookie>>

\* every Login that had a reason to fail has answered 401 with the one
\* generic body, no access token and no cookie
C12_LoginFailsGeneric ==
    \A c \in LoginCalls : (call[c].pc = "done" /\ call[c].cause # "") =>
        Response(c) = <<401, "invalid credentials", NoToken, NoToken>>

\* C12: Login answers 401 with the same generic body when the email is
\* unknown, when the user is inactive and when the password does not match,
\* returns no access token and sets no cookie; the step on which a Login
\* fails changes neither the user tables nor the ledger nor the set of
\* tokens handed out.
C12_LoginFailureUniform ==
    /\ []C12_LoginFailsGeneric
    /\ [][\A c \in Calls :
            (/\ call'[c] # call[c]
             /\ call'[c].op = "login" /\ call'[c].pc = "done"
             /\ call'[c].status # 200)
            => UNCHANGED <<users, userRoles, blocklist, store, issued>>]_vars

\* a Login for an unknown email and a Login with a wrong password for a
\* known one have got the same response
C12_Witness ==
    \E c, d \in LoginCalls : /\ call[c].pc = "done" /\ call[d].pc = "done"
                              /\ call[c].cause = "absent"
                              /\ call[d].cause = "mismatch"
                              /\ Response(c) = Response(d)

RegisterCalls == {c \in Calls : call[c].op = "register"}

\* no two rows of User have the same email up to letter case, and a Register
\* that started after one for its email had succeeded has answered 409
C13_LowercaseEmailUnique ==
    /\ \A u, v \in UserIds : SameEmail(users[u].email, users[v].email) => u = v
    /\ \A c \in RegisterCalls : call[c].registeredAtStart =>
           /\ call[c].pc = "done"
           /\ call[c].status = 409
           /\ call[c].message = "email exists"

\* C13: once a Register with email e has succeeded, a later Register whose
\* email equals e up to letter case answers 409 and leaves the User and
\* UserRole tables as they were; User never holds two rows with the same
\* lowercase email.
C13_DuplicateRegisterConflicts ==
    /\ []C13_LowercaseEmailUnique
    /\ [][\A c \in Calls :
            (/\ call'[c] # call[c]
             /\ call'[c].op = "register"
             /\ call'[c].registeredAtStart)
            => UNCHANGED <<users, userRoles>>]_vars

\* "A@X.com" was refused after "a@x.com" had been registered
C13_Witness ==
    \E c \in RegisterCalls : /\ call[c].email = "A@X.com"
                              /\ call[c].registeredAtStart
                              /\ call[c].status = 409
                              /\ \E u \in UserIds : users[u].email = "a@x.com"

\* C14: a Register that has passed the existence check ends with 201 or with
\* 409, never in a store error nothing handles; of two such calls for one
\* email that have both ended, one has answered 201 and the other 409.
C14_ConcurrentRegisterConflict ==
    /\ \A c \in RegisterCalls : call[c].pc # "rejected"
    /\ \A c, d \in RegisterCalls :
          (/\ c # d
           /\ SameEmail(call[c].email, call[d].email)
           /\ ~call[c].registeredAtStart /\ ~call[d].registeredAtStart
           /\ call[c].pc = "done" /\ call[d].pc = "done"
           /\ call[c].status = 201)
          => call[d].status = 409

\* C15: a Refresh whose token was valid and unrevoked on arrival and whose
\* subject was deactivated by then returns no access token and sets no
\* cookie; unless the revocation check refuses it first (the token was
\* revoked meanwhile), it answers 403 User inactive.
C15_InactiveSubjectRefused ==
    \A c \in RefreshCalls :
        (/\ call[c].inactiveAtStart
         /\ call[c].validAtStart
         /\ ~call[c].revokedAtStart
         /\ call[c].pc = "done")
        => /\ call[c].access_token = NoToken
           /\ call[c].set_cookie = NoToken
           /\ call[c].message # "Refresh revoked" =>
                  (call[c].status = 403 /\ call[c].message = "User inactive")

\* the refresh token of a user deactivated after the Login was answered 403
C15_Witness ==
    \E c \in RefreshCalls : /\ call[c].inactiveAtStart
                             /\ call[c].validAtStart
                             /\ ~call[c].revokedAtStart
                             /\ call[c].token \in RefreshTokens
                             /\ call[c].status = 403

\* C16: a Refresh during which a store or ledger operation failed answers
\* with a server error (5xx), never with 401 and never with success.
C16_StoreFailureIsServerError ==
    \A c \in RefreshCalls : (call[c].storeFailed /\ call[c].pc = "done") =>
        call[c].status >= 500

\* the step on which the Refresh of slot c answers 200
RefreshSucceeds(c) ==
    /\ call[c].op = "refresh" /\ call[c].pc # "done"
    /\ call'[c].pc = "done" /\ call'[c].status = 200

\* C17: when a Refresh answers 200, the new access token names the subject
\* of the presented token and carries exactly the roles the UserRole table
\* assigns to that subject at that step.
C17_RefreshReloadsRoles ==
    [][\A c \in Calls : RefreshSucceeds(c) =>
          /\ call'[c].access_token.payload.sub = call[c].token.payload.sub
          /\ call'[c].access_token.payload.roles = RolesOf(call[c].token.payload.sub)
          /\ userRoles' = userRoles]_vars

\* a Refresh has returned an access token with a role the subject's earlier
\* access token does not have
C17_Witness ==
    \E c \in RefreshCalls : \E t \in AccessTokens :
        /\ Succeeded(c)
        /\ call[c].token \in RefreshTokens
        /\ t.payload.sub = call[c].access_token.payload.sub
        /\ t.payload.iat < call[c].access_token.payload.iat
        /\ t.payload.roles # call[c].access_token.payload.roles

\* the step on which the Login of slot c answers 200
LoginSucceeds(c) ==
    /\ call[c].op = "login" /\ call[c].pc # "done"
    /\ call'[c].pc = "done" /\ call'[c].status = 200

\* C18: when a Login answers 200, the roles in the access token are exactly
\* the roles the UserRole table assigns to the user at that step.
C18_LoginRolesCurrent ==
    [][\A c \in Calls : LoginSucceeds(c) =>
          call'[c].access_token.payload.roles
              = RolesOf(call'[c].access_token.payload.sub)]_vars

\* C19: a token the server issued is accepted only at instants strictly
\* before its expiry: requireAuth lets it through iff now < exp, GET /auth/me
\* answered 200 iff the token was unexpired on arrival and 401 otherwise, and
\* a Refresh that arrived at or after its token's expiry answered 401.
C19_ExpiryIsExclusive ==
    /\ \A t \in issued : requireAuth(t).next <=> now < t.payload.exp
    /\ \A c \in MeCalls : call[c].token \in issued =>
           /\ call[c].validAtStart => call[c].status = 200
           /\ ~call[c].validAtStart =>
                  (call[c].status = 401 /\ call[c].message = "Invalid/expired token")
    /\ \A c \in RefreshCalls : (call[c].token \in issued /\ ~call[c].validAtStart) =>
           /\ call[c].pc = "done"
           /\ call[c].status = 401
           /\ call[c].message = "Invalid refresh"

\* an access token presented at exactly its expiry instant (it was expired
\* on arrival and the clock stands at its expiry) was refused
C19_Witness ==
    \E c \in MeCalls : /\ call[c].token \in AccessTokens
                        /\ ~call[c].validAtStart
                        /\ now = call[c].token.payload.exp
                        /\ call[c].status = 401

\* the same for a refresh token presented to Refresh
C19_WitnessRefresh ==
    \E d \in RefreshCalls : /\ call[d].token \in RefreshTokens
                             /\ ~call[d].validAtStart
                             /\ now = call[d].token.payload.exp
                             /\ call[d].message = "Invalid refresh"

\* C20: a Logout presenting X never puts into the ledger the identifier of
\* a different refresh token T the server issued, so it never makes a
\* Refresh of T fail.
C20_LogoutRevokesOnlyItsToken ==
    [][\A c \in Calls : \A X \in Cookies : \A T \in RefreshTokens :
          (LogoutArrives(c, X) /\ X # T /\ ~Revoked(T)) => ~Revoked(T)']_vars

\* C22: a Refresh that has put its token's identifier into the ledger
\* (consumed it) answers 200 with a replacement pair; one that answers
\* anything else has left the ledger as it was.
C22_FailedRefreshLeavesLedger ==
    \A c \in RefreshCalls : (call[c].pc = "done" /\ call[c].consumed) =>
        /\ call[c].status = 200
        /\ call[c].set_cookie # NoToken

\* the POST /auth/refresh requests whose promise is pending
RefreshesInFlight == {r \in Reqs : client.req[r].refresh \in {"sent", "waiting"}}

\* C21: when the POST /auth/refresh made for request r is answered with an
\* error, 401 included, that step clears the access token, empties waiters,
\* resets refreshing, rejects r and leaves no handler waiting.
C21_FailedRefreshReleasesAll ==
    [][\A r \in Reqs :
          (/\ client.req[r].refresh = "sent"
           /\ client'.req[r].refresh # "sent"
           /\ client'.req[r].refreshStatus >= 400)
          => /\ client'.accessToken = "none"
             /\ ~client'.refreshing
             /\ client'.waiters = <<>>
             /\ client'.req[r].pc = "rejected"
             /\ \A q \in Reqs : /\ client'.req[q].pc # "waiting"
                                  /\ client'.req[q].refresh # "waiting"]_vars

\* C23: a request is sent at most twice: once, and at most once more after
\* a 401.
C23_ResentAtMostOnce ==
    \A r \in Reqs : client.req[r].sends <= 2

\* at most one refresh is pending, and only while refreshing is true;
\* waiters is empty when refreshing is false and holds exactly the handlers
\* that wait
C24_RefreshFlag ==
    /\ Cardinality(RefreshesInFlight) <= 1
    /\ RefreshesInFlight # {} => client.refreshing
    /\ ~client.refreshing => client.waiters = <<>>
    /\ \A q \in Reqs : client.req[q].pc = "waiting" <=> Queued(WaiterOf(q))
    /\ \A q \in Reqs : client.req[q].pc = "awaitRefresh" <=> q \in RefreshesInFlight

\* C24: at most one POST /auth/refresh of the interceptor is in flight;
\* a request answered 401 while refreshing is true waits in waiters and is
\* sent again only on a step that ends that refresh; waiters is empty
\* whenever refreshing is false.
C24_SingleRefreshInFlight ==
    /\ []C24_RefreshFlag
    /\ [][\A q \in Reqs :
            /\ (client.req[q].pc = "sent" /\ client'.req[q].pc = "waiting")
                   => (client.refreshing /\ client'.refreshing)
            /\ (client.req[q].pc = "waiting" /\ client'.req[q].pc # "waiting")
                   => /\ client'.req[q].pc = "sent"
                      /\ RefreshesInFlight # {}
                      /\ RefreshesInFlight' = {}
                      /\ ~client'.refreshing]_vars

\* two requests wait behind the refresh a third one started
C24_Witness ==
    /\ client.refreshing
    /\ Len(client.waiters) = 2
    /\ \E r \in Reqs : client.req[r].refresh = "sent"

====
